---- MODULE Spec2Model ----
(***************************************************************************)
(* Model of nitsmdevtools/scope.py: array broadcasting, pin classification, *)
(* the channel-list resolver and the operation layer over the session      *)
(* scope aggregate (SSC).                                                  *)
(*                                                                         *)
(* Python values are modelled as follows.  A str that the code splits or   *)
(* joins on commas is a sequence of symbols, each symbol being a separator *)
(* character ("," or " ") or a maximal run of other characters; a list or  *)
(* tuple is a sequence; a call's outcome is a record with kind "return" or *)
(* "raise".                                                                *)
(***************************************************************************)
EXTENDS Integers, Sequences, FiniteSets, TLC

VARIABLES
    data_in,          \* _expand_to_requested_array_size: argument data_in
    requested_size,   \* _expand_to_requested_array_size: argument requested_size
    expand_result,    \* outcome of the last _expand_to_requested_array_size call
    classify_pins,    \* _check_for_pin_group: argument pins_or_pins_group
    classify_result,  \* outcome of the last _check_for_pin_group call
    resolve_pc,       \* tsm_ssc_scope_pins_to_sessions: "idle", "loop" or "done"
    resolve_in,       \* its arguments and what the pin query context answered
    pin_names_return, \* _pin_query_context_to_channel_list: local of that name
    pin_types_return, \* _pin_query_context_to_channel_list: local of that name
    site_numbers_out, \* _pin_query_context_to_channel_list: local of that name
    pins_array_for_session_input,  \* one list of channel addresses per session
    loop_at,          \* <<site position, pin position>> of the next iteration
    loop_last,        \* the iteration just executed: its indices and its write
    resolve_result,   \* outcome of the last tsm_ssc_scope_pins_to_sessions call
    tsm_ssc,          \* TSMScope.ssc: the aggregate the operations are given
    lifecycle,        \* per driver session: "Configured", "Armed" or "Acquired"
    op,               \* the last operation called and its arguments
    calls,            \* the driver calls the last operation issued, in order
    op_result         \* outcome of the last operation

bvars == <<data_in, requested_size, expand_result>>

cvars == <<classify_pins, classify_result>>

rvars == <<resolve_pc, resolve_in, pin_names_return, pin_types_return, site_numbers_out,
           pins_array_for_session_input, loop_at, loop_last, resolve_result>>

ovars == <<tsm_ssc, lifecycle, op, calls, op_result>>

vars == <<data_in, requested_size, expand_result, classify_pins, classify_result,
          resolve_pc, resolve_in, pin_names_return, pin_types_return, site_numbers_out,
          pins_array_for_session_input, loop_at, loop_last, resolve_result,
          tsm_ssc, lifecycle, op, calls, op_result>>

NoCall == [kind |-> "none"]

Return(v) == [kind |-> "return", value |-> v]

Raise(e, m) == [kind |-> "raise", exc |-> e, msg |-> m]

(***************************************************************************)
(* Array broadcasting                                                      *)
(***************************************************************************)
MaxLen == 3

MaxVal == 2

MaxN == 6

Values == 1..MaxVal

Tuples == UNION {[1..l -> Values] : l \in 0..MaxLen}

\* data_in is a tuple (isTuple, items its elements) or any other value
\* (items holds that one value, as data = (data_in,) does).
DataIns == [isTuple : {TRUE}, items : Tuples] \cup [isTuple : {FALSE}, items : [1..1 -> Values]]

\* Python's 0 ^ n on non-negative ints.
ZeroXor(n) == n

\* The for loop of the tuple branch: k iterations left, i the 0-based cursor.
RECURSIVE ExpandLoop(_, _, _, _)
ExpandLoop(data, i, k, data_out) ==
    IF k = 0 THEN Return(data_out)
    ELSE IF i >= Len(data) THEN Raise("IndexError", "tuple index out of range")
    ELSE ExpandLoop(data, IF i = Len(data) THEN 0 ELSE i + 1, k - 1,
                    Append(data_out, data[i + 1]))

\* data * requested_size for the one-element tuple data.
Repeat(data, n) == [j \in 1..n |-> data[1]]

\* The trailing check: (len(data) == 0 ^ requested_size == 0) is the chained
\* comparison len(data) == (0 ^ requested_size) and (0 ^ requested_size) == 0.
ExpandCheck(data, n, data_out) ==
    LET chained == Len(data) = ZeroXor(n) /\ ZeroXor(n) = 0 IN
    IF chained
    THEN Raise("ValueError", "Empty array input")
    ELSE IF Len(data) = 0
    THEN Raise("ZeroDivisionError", "integer division or modulo by zero")
    ELSE IF n % Len(data) # 0
    THEN (IF Len(data) = 0 \/ n = 0
          THEN Raise("ValueError", "Empty array input")
          ELSE Raise("ValueError", "Input array does not evenly distribute into sessions"))
    ELSE Return(data_out)

_expand_to_requested_array_size(d, n) ==
    IF d.isTuple
    THEN LET filled == ExpandLoop(d.items, 0, n, <<>>) IN
         IF filled.kind = "raise" THEN filled
         ELSE ExpandCheck(d.items, n, filled.value)
    ELSE ExpandCheck(d.items, n, Repeat(d.items, n))

InitBroadcast ==
    /\ data_in = [isTuple |-> TRUE, items |-> <<>>]
    /\ requested_size = 0
    /\ expand_result = NoCall

ExpandCall ==
    /\ \E d \in DataIns, n \in 0..MaxN :
        /\ data_in' = d
        /\ requested_size' = n
        /\ expand_result' = _expand_to_requested_array_size(d, n)
    /\ UNCHANGED <<cvars, rvars, ovars>>

(***************************************************************************)
(* Pin classification                                                      *)
(***************************************************************************)
\* The test-management context: the pin map of the classification scenario
\* (DUT pins A and B, system pin Clk, pin group G1 = {A, B}); X is a name
\* the pin map does not know.
dut_pins == <<"A", "B">>

system_pins == <<"Clk">>

PinGroups == {"G1"}

PinsInGroup(g) == CASE g = "G1" -> <<"A", "B">>

RequestNames == {"A", "B", "Clk", "G1", "X"}

MaxReq == 2

Requests == UNION {[1..l -> RequestNames] : l \in 0..MaxReq}

\* PinType and the .value of each member.
PinTypeValue(t) ==
    CASE t = "DUT_Pin" -> 0
      [] t = "System_Pin" -> 1
      [] t = "Pin_Group" -> 2
      [] t = "Not_Determined" -> 3

\* list.index: the first position of x, 0 for ValueError.
IndexOf(seq, x) ==
    IF \E i \in 1..Len(seq) : seq[i] = x
    THEN CHOOSE i \in 1..Len(seq) : seq[i] = x /\ \A j \in 1..(i - 1) : seq[j] # x
    ELSE 0

\* pin_names starts as the empty local list, so the first disjunct of the
\* test always holds; queries counts the calls of tsm_context.get_pin_names.
_get_all_pin_names(reload_cache) ==
    LET pin_names == <<>> IN
    IF Len(pin_names) = 0 \/ reload_cache
    THEN [pin_names |-> dut_pins \o system_pins,
          pin_types |-> [i \in 1..Len(dut_pins) |-> "DUT_Pin"]
                        \o [i \in 1..Len(system_pins) |-> "System_Pin"],
          queries |-> 1]
    ELSE [pin_names |-> pin_names, pin_types |-> <<>>, queries |-> 0]

\* The loop of _identify_pin_types over pins[k..]: pin_group_found is
\* overwritten by every pin.
RECURSIVE IdentifyLoop(_, _, _, _, _)
IdentifyLoop(roster, pins, k, filtered_pin_types, pin_group_found) ==
    IF k > Len(pins)
    THEN [types |-> filtered_pin_types, found |-> pin_group_found]
    ELSE LET index == IndexOf(roster.pin_names, pins[k]) IN
         IF index # 0
         THEN IdentifyLoop(roster, pins, k + 1,
                           Append(filtered_pin_types, roster.pin_types[index]), FALSE)
         ELSE IdentifyLoop(roster, pins, k + 1,
                           Append(filtered_pin_types, "Pin_Group"), TRUE)

_identify_pin_types(pins) ==
    LET roster == _get_all_pin_names(FALSE)
        r == IdentifyLoop(roster, pins, 1, <<>>, FALSE) IN
    [types |-> r.types, found |-> r.found, queries |-> roster.queries]

\* tsm_context.get_pins_in_pin_group: groups are replaced by their members and
\* pins pass through.  On a name the pin map does not know the provider either
\* raises (strict) or passes the name through.
RECURSIVE ExpandNames(_, _)
ExpandNames(names, k) ==
    IF k > Len(names) THEN <<>>
    ELSE (IF names[k] \in PinGroups THEN PinsInGroup(names[k]) ELSE <<names[k]>>)
         \o ExpandNames(names, k + 1)

KnownName(n) ==
    \/ n \in PinGroups
    \/ IndexOf(dut_pins \o system_pins, n) # 0

get_pins_in_pin_group(names, strict) ==
    IF strict /\ \E k \in 1..Len(names) : ~KnownName(names[k])
    THEN Raise("TSMError", "unknown pin or pin group")
    ELSE Return(ExpandNames(names, 1))

_check_for_pin_group(pins_or_pins_group, strict) ==
    LET first == _identify_pin_types(pins_or_pins_group) IN
    IF first.found
    THEN LET pins == get_pins_in_pin_group(pins_or_pins_group, strict) IN
         IF pins.kind = "raise" THEN pins
         ELSE LET second == _identify_pin_types(pins.value) IN
              Return([pins_types |-> second.types, pins |-> pins.value,
                      queries |-> first.queries + second.queries])
    ELSE Return([pins_types |-> first.types, pins |-> pins_or_pins_group,
                 queries |-> first.queries])

InitClassify ==
    /\ classify_pins = <<>>
    /\ classify_result = NoCall

ClassifyCall ==
    /\ classify_result.kind = "none"
    /\ resolve_pc = "idle"
    /\ \E pins \in Requests, strict \in BOOLEAN :
        /\ classify_pins' = pins
        /\ classify_result' = _check_for_pin_group(pins, strict)
    /\ UNCHANGED <<bvars, rvars, ovars>>

(***************************************************************************)
(* Channel-list resolver                                                   *)
(***************************************************************************)
\* tsm_context.site_numbers of the modelled test context.
context_site_numbers == <<0, 1>>

\* The site_numbers argument: empty (all sites of the context), one site, or
\* the sites in another order than the context's.
SiteNumberArgs == {<<>>, <<1>>, <<1, 0>>}

\* number_of_pins_per_channel as the pin query context answers it: one width
\* per session.
SlotWidths == {<<1>>, <<2>>, <<2, 1>>}

\* The pins handed to tsm_ssc_scope_pins_to_sessions.
ResolveRequests == {<<"Clk">>, <<"A", "Clk">>, <<"G1">>, <<"G1", "Clk">>, <<"X", "A">>}

MaxIdx == 1

\* The values the pin query context may answer as a channel-group index or a
\* channel index.
IdxDom == (-1)..MaxIdx

Min(a, b) == IF a <= b THEN a ELSE b

\* Python list indexing seq[i]: the 1-based position read or written, 0 for
\* IndexError.  A negative i counts from the end.
PyIndex(i, n) ==
    IF 0 <= i /\ i < n THEN i + 1
    ELSE IF i < 0 /\ -n <= i THEN n + i + 1
    ELSE 0

\* "Site{}/{}".format(site_number, pin)
SitePin(site_number, pin) == "Site" \o ToString(site_number) \o "/" \o pin

ChannelAddress_AlwaysPrefixed(pin_type, site_number, pin) == SitePin(site_number, pin)

\* The value one iteration stores for pin at site_number.
ChannelAddress(pin_type, site_number, pin) ==
    IF PinTypeValue(pin_type) = 1 THEN pin ELSE SitePin(site_number, pin)

\* ",".join(pins): the addresses with a "," symbol between neighbours.
RECURSIVE Join(_)
Join(pins) ==
    IF Len(pins) = 0 THEN <<>>
    ELSE IF Len(pins) = 1 THEN <<pins[1]>>
    ELSE <<pins[1], ",">> \o Join(Tail(pins))

\* What tsm_context.pins_to_niscope_sessions answers beside the pin query
\* context: one session per slot and its channel-subset descriptor.
SessionName(k) == "Scope" \o ToString(k)

ChannelsOfWidth(w) == Join([j \in 1..w |-> ToString(j - 1)])

\* The number of iterations of each loop: zip stops at its shortest argument.
NumSiteRows == Min(Len(context_site_numbers), Len(site_numbers_out))

NumPinRows == Min(resolve_in.rows, Min(Len(pin_names_return), Len(pin_types_return)))

InitResolve ==
    /\ resolve_pc = "idle"
    /\ resolve_in = [pins |-> <<>>, site_numbers |-> <<>>,
                     number_of_pins_per_channel |-> <<>>, rows |-> 0]
    /\ pin_names_return = <<>>
    /\ pin_types_return = <<>>
    /\ site_numbers_out = <<>>
    /\ pins_array_for_session_input = <<>>
    /\ loop_at = <<1, 1>>
    /\ loop_last = NoCall
    /\ resolve_result = NoCall

\* tsm_ssc_scope_pins_to_sessions up to the first loop iteration of
\* _pin_query_context_to_channel_list (expanded_pins_information = []).
PinsToSessionsBegin ==
    /\ resolve_pc = "idle"
    /\ classify_result.kind = "none"
    /\ \E pins \in ResolveRequests, site_numbers \in SiteNumberArgs,
          widths \in SlotWidths, strict \in BOOLEAN, expanded_rows \in BOOLEAN :
        LET checked == _check_for_pin_group(pins, strict) IN
        /\ pins_array_for_session_input' =
              [g \in 1..Len(widths) |-> [c \in 1..widths[g] |-> ""]]
        /\ site_numbers_out' =
              IF Len(site_numbers) = 0 THEN context_site_numbers ELSE site_numbers
        /\ loop_at' = <<1, 1>>
        /\ loop_last' = NoCall
        /\ IF checked.kind = "raise"
           THEN /\ resolve_pc' = "done"
                /\ resolve_result' = checked
                /\ pin_names_return' = <<>>
                /\ pin_types_return' = <<>>
                /\ resolve_in' = [pins |-> pins, site_numbers |-> site_numbers,
                                  number_of_pins_per_channel |-> widths, rows |-> 0]
           ELSE /\ resolve_pc' = "loop"
                /\ resolve_result' = NoCall
                /\ pin_names_return' = checked.value.pins
                /\ pin_types_return' = checked.value.pins_types
                /\ resolve_in' =
                      [pins |-> pins, site_numbers |-> site_numbers,
                       number_of_pins_per_channel |-> widths,
                       rows |-> IF expanded_rows THEN Len(checked.value.pins)
                                ELSE Len(pins)]
    /\ UNCHANGED <<bvars, cvars, ovars>>

\* One iteration of the inner loop: the pin query context's indices for this
\* (site, pin) are g and c.
WriteAddress(slots, g, c, address) ==
    LET gi == PyIndex(g, Len(slots)) IN
    IF gi = 0 THEN Raise("IndexError", "list index out of range")
    ELSE LET ci == PyIndex(c, Len(slots[gi])) IN
         IF ci = 0 THEN Raise("IndexError", "list assignment index out of range")
         ELSE Return([slots EXCEPT ![gi][ci] = address])

ResolveStep ==
    /\ resolve_pc = "loop"
    /\ loop_at[1] <= NumSiteRows
    /\ loop_at[2] <= NumPinRows
    /\ \E g \in IdxDom, c \in IdxDom :
        LET site_number == site_numbers_out[loop_at[1]]
            pin == pin_names_return[loop_at[2]]
            pin_type == pin_types_return[loop_at[2]]
            address == ChannelAddress(pin_type, site_number, pin)
            written == WriteAddress(pins_array_for_session_input, g, c, address) IN
        /\ loop_last' = [kind |-> "step", site |-> loop_at[1], pin |-> loop_at[2],
                         channel_group_index |-> g, channel_index |-> c,
                         address |-> address]
        /\ IF written.kind = "raise"
           THEN /\ resolve_pc' = "done"
                /\ resolve_result' = written
                /\ UNCHANGED <<pins_array_for_session_input, loop_at>>
           ELSE /\ pins_array_for_session_input' = written.value
                /\ loop_at' = IF loop_at[2] < NumPinRows
                              THEN <<loop_at[1], loop_at[2] + 1>>
                              ELSE <<loop_at[1] + 1, 1>>
                /\ UNCHANGED <<resolve_pc, resolve_result>>
    /\ UNCHANGED <<resolve_in, pin_names_return, pin_types_return, site_numbers_out>>
    /\ UNCHANGED <<bvars, cvars, ovars>>

\* After the loops: the joins, and the zip of tsm_ssc_scope_pins_to_sessions.
PinsToSessionsEnd ==
    /\ resolve_pc = "loop"
    /\ loop_at[1] > NumSiteRows \/ NumPinRows = 0
    /\ resolve_pc' = "done"
    /\ resolve_result' =
          Return([site_numbers |-> site_numbers_out,
                  ssc |-> [g \in 1..Len(pins_array_for_session_input) |->
                             [session |-> SessionName(g),
                              channels |-> ChannelsOfWidth(
                                  resolve_in.number_of_pins_per_channel[g]),
                              channel_list |-> Join(pins_array_for_session_input[g])]]])
    /\ UNCHANGED <<resolve_in, pin_names_return, pin_types_return, site_numbers_out,
                   pins_array_for_session_input, loop_at, loop_last>>
    /\ UNCHANGED <<bvars, cvars, ovars>>

(***************************************************************************)
(* Operation layer                                                         *)
(***************************************************************************)
Sessions == {"Scope1", "Scope2", "Scope3"}

\* SSCScope(session, channels, channel_list); NamedTuple equality is equality
\* of the three fields, and a session equals only itself.
SSCScope(session, channels, channel_list) ==
    [session |-> session, channels |-> channels, channel_list |-> channel_list]

\* The entries the trigger and acquisition operations are run on: one per
\* session, and a second entry of Scope1 on another channel.
OpsEntries ==
    {SSCScope("Scope1", <<"0">>, <<"Site0/A">>),
     SSCScope("Scope2", <<"0">>, <<"Site1/A">>),
     SSCScope("Scope3", <<"0">>, <<"Clk">>),
     SSCScope("Scope1", <<"1">>, <<"Site0/B">>)}

MaxAgg == 3

OpsAggregates == UNION {[1..l -> OpsEntries] : l \in 0..MaxAgg}

\* OUTPUT_TERMINAL members used as output_terminal.
Terminals == {"VAL_PFI_0", "VAL_RTSI_0"}

\* session.io_resource_descriptor
io_resource_descriptor(session) == session

DriverCall(name, session, args) == [call |-> name, session |-> session, args |-> args]

\* The driver's effect of one call on the lifecycle of its session.
AfterCall(state, c) ==
    IF c.call = "initiate" THEN [state EXCEPT ![c.session] = "Armed"]
    ELSE IF c.call = "abort" THEN [state EXCEPT ![c.session] = "Configured"]
    ELSE state

RECURSIVE AfterCalls(_, _)
AfterCalls(state, cs) ==
    IF Len(cs) = 0 THEN state ELSE AfterCalls(AfterCall(state, Head(cs)), Tail(cs))

RECURSIVE Concat(_)
Concat(seqs) == IF Len(seqs) = 0 THEN <<>> ELSE Head(seqs) \o Concat(Tail(seqs))

Reversed(seq) == [k \in 1..Len(seq) |-> seq[Len(seq) + 1 - k]]

\* initiate(tsm)
initiate(ssc) ==
    Concat([k \in 1..Len(ssc) |-> <<DriverCall("initiate", ssc[k].session, <<>>)>>])

\* abort(tsm): the loop body reads the attribute ssc.session.abort and does
\* not call it.
abort(ssc) == Concat([k \in 1..Len(ssc) |-> <<>>])

\* commit(tsm): the loop body reads the attribute ssc.session.commit and does
\* not call it.
commit(ssc) == Concat([k \in 1..Len(ssc) |-> <<>>])

\* tsm_ssc_scope_clear_triggers(tsm)
tsm_ssc_scope_clear_triggers(ssc) ==
    Concat([k \in 1..Len(ssc) |->
        <<DriverCall("abort", ssc[k].session, <<>>),
          DriverCall("configure_trigger_immediate", ssc[k].session, <<>>),
          DriverCall("set_exported_start_trigger_output_terminal", ssc[k].session,
                     <<"VAL_NO_SOURCE">>),
          DriverCall("commit", ssc[k].session, <<>>)>>])

MasterCalls_AlsoInitiated(session, output_terminal) ==
    <<DriverCall("configure_trigger_immediate", session, <<>>),
      DriverCall("set_exported_start_trigger_output_terminal", session, <<output_terminal>>),
      DriverCall("commit", session, <<>>),
      DriverCall("initiate", session, <<>>)>>

\* The calls on the entry found at index 0 by tsm.ssc.index(ssc).
MasterCalls(session, output_terminal) ==
    <<DriverCall("configure_trigger_immediate", session, <<>>),
      DriverCall("set_exported_start_trigger_output_terminal", session, <<output_terminal>>),
      DriverCall("commit", session, <<>>)>>

\* The calls on every other entry.
SlaveCalls(session, start_trigger) ==
    <<DriverCall("configure_trigger_digital", session, <<start_trigger, "POSITIVE", 0, 0>>),
      DriverCall("initiate", session, <<>>)>>

\* The loop of tsm_ssc_scope_export_start_triggers from entry k on;
\* start_trigger is the local of that name.
RECURSIVE ExportLoop(_, _, _, _, _)
ExportLoop(ssc, output_terminal, k, start_trigger, done) ==
    IF k > Len(ssc) THEN [calls |-> done, start_trigger |-> start_trigger]
    ELSE IF IndexOf(ssc, ssc[k]) - 1 = 0
    THEN ExportLoop(ssc, output_terminal, k + 1,
                    "/" \o io_resource_descriptor(ssc[k].session) \o "/" \o output_terminal,
                    done \o MasterCalls(ssc[k].session, output_terminal))
    ELSE ExportLoop(ssc, output_terminal, k + 1, start_trigger,
                    done \o SlaveCalls(ssc[k].session, start_trigger))

tsm_ssc_scope_export_start_triggers(ssc, output_terminal) ==
    IF ssc # <<>>
    THEN ExportLoop(ssc, output_terminal, 1, "", <<>>)
    ELSE [calls |-> <<>>, start_trigger |-> ""]

tsm_ssc_scope_start_acquisition_Forward(ssc) ==
    Concat([k \in 1..Len(ssc) |->
        <<DriverCall("abort", ssc[k].session, <<>>),
          DriverCall("initiate", ssc[k].session, <<>>)>>])

\* tsm_ssc_scope_start_acquisition(tsm)
tsm_ssc_scope_start_acquisition(ssc) ==
    LET rev == Reversed(ssc) IN
    Concat([k \in 1..Len(rev) |->
        <<DriverCall("abort", rev[k].session, <<>>),
          DriverCall("initiate", rev[k].session, <<>>)>>])

InitOpsIdle ==
    /\ lifecycle = [s \in Sessions |-> "Configured"]
    /\ op = NoCall
    /\ calls = <<>>
    /\ op_result = NoCall

InitOps ==
    /\ tsm_ssc \in OpsAggregates
    /\ InitOpsIdle

\* An operation that issued the driver calls cs and returned value.
Returned(name, args, cs, value) ==
    /\ op' = [kind |-> "call", name |-> name, args |-> args]
    /\ calls' = cs
    /\ lifecycle' = AfterCalls(lifecycle, cs)
    /\ op_result' = Return(value)
    /\ UNCHANGED tsm_ssc
    /\ UNCHANGED <<bvars, cvars, rvars>>

Initiate == Returned("initiate", <<>>, initiate(tsm_ssc), tsm_ssc)

Abort == Returned("abort", <<>>, abort(tsm_ssc), tsm_ssc)

Commit == Returned("commit", <<>>, commit(tsm_ssc), tsm_ssc)

ClearTriggers ==
    Returned("tsm_ssc_scope_clear_triggers", <<>>, tsm_ssc_scope_clear_triggers(tsm_ssc),
             tsm_ssc)

ExportStartTriggers ==
    \E output_terminal \in Terminals :
        LET r == tsm_ssc_scope_export_start_triggers(tsm_ssc, output_terminal) IN
        Returned("tsm_ssc_scope_export_start_triggers", <<output_terminal>>, r.calls,
                 <<tsm_ssc, r.start_trigger>>)

StartAcquisition ==
    Returned("tsm_ssc_scope_start_acquisition", <<>>,
             tsm_ssc_scope_start_acquisition(tsm_ssc), tsm_ssc)

\* The instrument: an armed session receives its trigger and completes.
HardwareTrigger ==
    /\ \E s \in Sessions :
        /\ lifecycle[s] = "Armed"
        /\ lifecycle' = [lifecycle EXCEPT ![s] = "Acquired"]
    /\ op' = [kind |-> "hardware"]
    /\ calls' = <<>>
    /\ op_result' = NoCall
    /\ UNCHANGED tsm_ssc
    /\ UNCHANGED <<bvars, cvars, rvars>>

(***************************************************************************)
(* Per-channel operations                                                  *)
(***************************************************************************)
\* The first position from p on whose symbol is not whitespace.
RECURSIVE SkipSpaces(_, _)
SkipSpaces(str, p) ==
    IF p <= Len(str) /\ str[p] = " " THEN SkipSpaces(str, p + 1) ELSE p

\* re.split(r"\s*,\s*", str) from position p on, token being the piece read
\* so far: a match is a "," with the whitespace on both sides of it.
RECURSIVE SplitFrom(_, _, _)
SplitFrom(str, p, token) ==
    IF p > Len(str) THEN <<token>>
    ELSE LET q == SkipSpaces(str, p) IN
         IF q <= Len(str) /\ str[q] = ","
         THEN <<token>> \o SplitFrom(str, SkipSpaces(str, q + 1), <<>>)
         ELSE SplitFrom(str, p + 1, Append(token, str[p]))

ReSplit(str) == SplitFrom(str, 1, <<>>)

\* zip(a, b) of one entry's two splits, as SSCScope entries of its session.
ZipEntry(e) ==
    LET channels == ReSplit(e.channels)
        channel_lists == ReSplit(e.channel_list) IN
    [i \in 1..Min(Len(channels), Len(channel_lists)) |->
        SSCScope(e.session, channels[i], channel_lists[i])]

_expand_ssc_to_ssc_per_channel(ssc) == Concat([k \in 1..Len(ssc) |-> ZipEntry(ssc[k])])

\* The entries the per-channel operations are run on: one channel, two
\* channels, and a range descriptor beside a two-address channel_list.
PerChannelEntries ==
    {SSCScope("Scope1", <<"0">>, <<"Site0/A">>),
     SSCScope("Scope2", <<"0", ",", "1">>, <<"Site0/B", ",", " ", "Site1/B">>),
     SSCScope("Scope3", <<"0-1">>, <<"Site0/C", ",", "Site1/C">>)}

MaxPerChannelAgg == 2

PerChannelAggregates == UNION {[1..l -> PerChannelEntries] : l \in 0..MaxPerChannelAgg}

MaxParamLen == 2

\* A parameter of a per-channel operation: one value, or the tuple (1, ..., l).
ParamArrays ==
    {[isTuple |-> FALSE, items |-> <<1>>]}
    \cup {[isTuple |-> TRUE, items |-> [j \in 1..l |-> j]] : l \in 0..MaxParamLen}

\* The first raise of a sequence of outcomes, or the outcomes' values.
FirstRaise(outcomes) ==
    IF \E k \in 1..Len(outcomes) : outcomes[k].kind = "raise"
    THEN outcomes[CHOOSE k \in 1..Len(outcomes) :
                    /\ outcomes[k].kind = "raise"
                    /\ \A j \in 1..(k - 1) : outcomes[j].kind # "raise"]
    ELSE Return([k \in 1..Len(outcomes) |-> outcomes[k].value])

MinLen(seqs) ==
    CHOOSE m \in {Len(seqs[k]) : k \in 1..Len(seqs)} :
        \A k \in 1..Len(seqs) : m <= Len(seqs[k])

\* zip over the per-channel entries and the five arrays, one configure_vertical
\* per tuple of the zip.
_ssc_scope_configure_vertical_per_channel_arrays(ssc, vertical_ranges, vertical_offsets, vertical_couplings, probes_attenuation, channels_enabled) ==
    LET n == MinLen(<<ssc, vertical_ranges, vertical_offsets, vertical_couplings,
                      probes_attenuation, channels_enabled>>) IN
    [k \in 1..n |->
        [call |-> "configure_vertical", session |-> ssc[k].session,
         channels |-> ssc[k].channels,
         args |-> <<vertical_ranges[k], vertical_couplings[k], vertical_offsets[k],
                    probes_attenuation[k], channels_enabled[k]>>]]

\* zip over the per-channel entries and the measurements, one
\* fetch_measurement_stats per pair.
_ssc_scope_fetch_measurement_stats_arrays(ssc, scalar_measurements) ==
    [k \in 1..Min(Len(ssc), Len(scalar_measurements)) |->
        [call |-> "fetch_measurement_stats", session |-> ssc[k].session,
         channels |-> ssc[k].channels, args |-> <<scalar_measurements[k]>>]]

\* The first n elements of a parameter (all of them when it has fewer).
Clip(d, n) == [k \in 1..Min(n, Len(d.items)) |-> d.items[k]]

configure_vertical_per_channel_CallsFirst(ssc, vertical_range, vertical_offset, vertical_coupling, probe_attenuation, channel_enabled) ==
    LET scope_ssc_per_channel == _expand_ssc_to_ssc_per_channel(ssc)
        n == Len(scope_ssc_per_channel)
        expanded == FirstRaise(
            <<_expand_to_requested_array_size(probe_attenuation, n),
              _expand_to_requested_array_size(vertical_coupling, n),
              _expand_to_requested_array_size(vertical_range, n),
              _expand_to_requested_array_size(vertical_offset, n),
              _expand_to_requested_array_size(channel_enabled, n)>>) IN
    [calls |-> _ssc_scope_configure_vertical_per_channel_arrays(
                   scope_ssc_per_channel, Clip(vertical_range, n), Clip(vertical_offset, n),
                   Clip(vertical_coupling, n), Clip(probe_attenuation, n),
                   Clip(channel_enabled, n)),
     result |-> IF expanded.kind = "raise" THEN expanded ELSE Return(ssc)]

\* configure_vertical_per_channel(tsm, ...): the five expansions, in the order
\* of the source, then the driver calls.
configure_vertical_per_channel(ssc, vertical_range, vertical_offset, vertical_coupling, probe_attenuation, channel_enabled) ==
    LET scope_ssc_per_channel == _expand_ssc_to_ssc_per_channel(ssc)
        n == Len(scope_ssc_per_channel)
        expanded == FirstRaise(
            <<_expand_to_requested_array_size(probe_attenuation, n),
              _expand_to_requested_array_size(vertical_coupling, n),
              _expand_to_requested_array_size(vertical_range, n),
              _expand_to_requested_array_size(vertical_offset, n),
              _expand_to_requested_array_size(channel_enabled, n)>>) IN
    IF expanded.kind = "raise"
    THEN [calls |-> <<>>, result |-> expanded]
    ELSE [calls |-> _ssc_scope_configure_vertical_per_channel_arrays(
                        scope_ssc_per_channel, expanded.value[3], expanded.value[4],
                        expanded.value[2], expanded.value[1], expanded.value[5]),
          result |-> Return(ssc)]

\* tsm_ssc_scope_fetch_meas_stats_per_channel(tsm, scalar_measurement); the
\* statistics fetched are the driver's, one per call.
tsm_ssc_scope_fetch_meas_stats_per_channel(ssc, scalar_measurement) ==
    LET scope_ssc_per_channel == _expand_ssc_to_ssc_per_channel(ssc)
        scalar_measurements ==
            _expand_to_requested_array_size(scalar_measurement,
                                            Len(scope_ssc_per_channel)) IN
    IF scalar_measurements.kind = "raise"
    THEN [calls |-> <<>>, result |-> scalar_measurements]
    ELSE LET cs == _ssc_scope_fetch_measurement_stats_arrays(
                       scope_ssc_per_channel, scalar_measurements.value) IN
         [calls |-> cs, result |-> Return(<<ssc, Len(cs)>>)]

InitPerChannel ==
    /\ tsm_ssc \in PerChannelAggregates
    /\ InitOpsIdle

\* A per-channel operation that issued the driver calls r.calls and ended as
\* r.result; configure_vertical and fetch_measurement_stats leave the
\* lifecycle of a session as it is.
PerChannelDone(name, args, r) ==
    /\ op.kind = "none"
    /\ op' = [kind |-> "call", name |-> name, args |-> args]
    /\ calls' = r.calls
    /\ op_result' = r.result
    /\ UNCHANGED <<tsm_ssc, lifecycle>>
    /\ UNCHANGED <<bvars, cvars, rvars>>

ConfigureVerticalPerChannel ==
    \E vertical_range \in ParamArrays, vertical_offset \in ParamArrays,
       vertical_coupling \in ParamArrays, probe_attenuation \in ParamArrays,
       channel_enabled \in ParamArrays :
        PerChannelDone("configure_vertical_per_channel",
                       <<vertical_range, vertical_offset, vertical_coupling,
                         probe_attenuation, channel_enabled>>,
                       configure_vertical_per_channel(
                           tsm_ssc, vertical_range, vertical_offset, vertical_coupling,
                           probe_attenuation, channel_enabled))

FetchMeasStatsPerChannel ==
    \E scalar_measurement \in ParamArrays :
        PerChannelDone("tsm_ssc_scope_fetch_meas_stats_per_channel",
                       <<scalar_measurement>>,
                       tsm_ssc_scope_fetch_meas_stats_per_channel(tsm_ssc,
                                                                  scalar_measurement))

\* _expand_ssc_to_ssc_per_channel(ssc) on the aggregate, on its own: it calls
\* no driver and returns the per-channel entries.
ExpandSscToSscPerChannel ==
    PerChannelDone("_expand_ssc_to_ssc_per_channel", <<>>,
                   [calls |-> <<>>,
                    result |-> Return(_expand_ssc_to_ssc_per_channel(tsm_ssc))])

(***************************************************************************)
(* Specifications                                                          *)
(***************************************************************************)
NextBroadcast == ExpandCall

InitOther == tsm_ssc = <<>> /\ InitOpsIdle

InitSpecBroadcast == InitBroadcast /\ InitClassify /\ InitResolve /\ InitOther

SpecBroadcast == InitSpecBroadcast /\ [][NextBroadcast]_vars

NextPins == ClassifyCall \/ PinsToSessionsBegin \/ ResolveStep \/ PinsToSessionsEnd

InitSpecPins == InitBroadcast /\ InitClassify /\ InitResolve /\ InitOther

SpecPins == InitSpecPins /\ [][NextPins]_vars

NextOps ==
    \/ Initiate
    \/ Abort
    \/ Commit
    \/ ClearTriggers
    \/ ExportStartTriggers
    \/ StartAcquisition
    \/ HardwareTrigger

NextPerChannel ==
    \/ ConfigureVerticalPerChannel
    \/ FetchMeasStatsPerChannel
    \/ ExpandSscToSscPerChannel

InitSpecPerChannel == InitBroadcast /\ InitClassify /\ InitResolve /\ InitPerChannel

SpecPerChannel == InitSpecPerChannel /\ [][NextPerChannel]_vars

InitSpecOps == InitBroadcast /\ InitClassify /\ InitResolve /\ InitOps

SpecOps == InitSpecOps /\ [][NextOps]_vars

\* C1: for N >= 1 and a tuple a of length L >= 1 with L dividing N, the call
\* returns exactly N elements, the i-th being a[i mod L].
C1_BroadcastRoundRobin ==
    (/\ expand_result.kind # "none"
     /\ data_in.isTuple
     /\ requested_size >= 1
     /\ Len(data_in.items) >= 1
     /\ requested_size % Len(data_in.items) = 0)
    => /\ expand_result.kind = "return"
       /\ Len(expand_result.value) = requested_size
       /\ \A i \in 0..(requested_size - 1) :
              expand_result.value[i + 1] = data_in.items[(i % Len(data_in.items)) + 1]

\* C2: exactly one of L, N zero fails with 'Empty array input'; both nonzero
\* and N mod L # 0 fails with 'Input array does not evenly distribute into
\* sessions'; no other error and no result in these cases.
C2_BroadcastFailureModes ==
    (expand_result.kind # "none" /\ data_in.isTuple)
    => LET L == Len(data_in.items)
           N == requested_size IN
       /\ ((L = 0 /\ N > 0) \/ (L > 0 /\ N = 0))
            => expand_result = Raise("ValueError", "Empty array input")
       /\ (L > 0 /\ N > 0 /\ N % L # 0)
            => expand_result =
                 Raise("ValueError", "Input array does not evenly distribute into sessions")

\* The names a request stands for: members for a group, the name itself otherwise.
RosterType(n) ==
    IF IndexOf(dut_pins, n) # 0 THEN "DUT_Pin"
    ELSE IF IndexOf(system_pins, n) # 0 THEN "System_Pin"
    ELSE "Not_Determined"

\* C3: a request mixing pin groups and roster pins in any order is returned
\* with every group replaced by its members, every entry typed by roster
\* membership and no entry typed Pin_Group.
C3_GroupsExpanded ==
    (/\ classify_result.kind # "none"
     /\ \A k \in 1..Len(classify_pins) : KnownName(classify_pins[k])
     /\ \E k \in 1..Len(classify_pins) : classify_pins[k] \in PinGroups)
    => /\ classify_result.kind = "return"
       /\ classify_result.value.pins = ExpandNames(classify_pins, 1)
       /\ Len(classify_result.value.pins_types) = Len(classify_result.value.pins)
       /\ \A k \in 1..Len(classify_result.value.pins_types) :
              /\ classify_result.value.pins_types[k] # "Pin_Group"
              /\ classify_result.value.pins_types[k]
                    = RosterType(classify_result.value.pins[k])

\* C4: a requested name that is neither a roster pin nor a pin group makes
\* classification and the enclosing resolve fail: no result gives such a name
\* a kind, and no channel address is written for it.
C4_UnresolvedNameFails ==
    /\ (/\ classify_result.kind # "none"
        /\ \E k \in 1..Len(classify_pins) : ~KnownName(classify_pins[k]))
       => classify_result.kind = "raise"
    /\ (/\ resolve_pc # "idle"
        /\ \E k \in 1..Len(resolve_in.pins) : ~KnownName(resolve_in.pins[k]))
       => /\ resolve_pc = "done"
          /\ resolve_result.kind = "raise"
          /\ loop_last.kind = "none"

\* The cell the last iteration addressed, by Python's indexing.
LastCell ==
    LET gi == PyIndex(loop_last.channel_group_index, Len(pins_array_for_session_input))
        ci == PyIndex(loop_last.channel_index, Len(pins_array_for_session_input[gi])) IN
    pins_array_for_session_input[gi][ci]

\* The addresses the claim allows for the pins and sites of this call.
AllowedAddresses ==
    {IF pin_types_return[p] = "System_Pin" THEN pin_names_return[p]
     ELSE "Site" \o ToString(site_numbers_out[s]) \o "/" \o pin_names_return[p] :
        s \in 1..NumSiteRows, p \in 1..NumPinRows}

\* C5: the address an iteration writes is the bare pin name for a System_Pin
\* and Site{n}/{pin} otherwise, n being the site number at the iteration's
\* position of the resolved site list and pin the name at its position of the
\* supplied pins; every position of a returned channel_list is unfilled or
\* holds such an address.
C5_SitePrefix ==
    /\ (loop_last.kind = "step" /\ resolve_result.kind # "raise")
       => LET pin == pin_names_return[loop_last.pin]
              n == site_numbers_out[loop_last.site] IN
          IF pin_types_return[loop_last.pin] = "System_Pin"
          THEN LastCell = pin
          ELSE LastCell = "Site" \o ToString(n) \o "/" \o pin
    /\ resolve_result.kind = "return"
       => \A g \in 1..Len(resolve_result.value.ssc) :
            LET channel_list == resolve_result.value.ssc[g].channel_list IN
            \A k \in 1..Len(channel_list) :
                IF k % 2 = 0 THEN channel_list[k] = ","
                ELSE channel_list[k] \in AllowedAddresses \cup {""}

\* A resolve over sites <<1, 0>> that filled one session with A of both sites
\* and another with the system pin.
C5_Witness ==
    /\ resolve_result.kind = "return"
    /\ site_numbers_out = <<1, 0>>
    /\ Len(resolve_result.value.ssc) = 2
    /\ resolve_result.value.ssc[1].channel_list = <<"Site1/A", ",", "Site0/A">>
    /\ resolve_result.value.ssc[2].channel_list = <<"Clk">>

\* An index outside 0..(length - 1), negative ones included.
LastOutOfBounds ==
    LET g == loop_last.channel_group_index
        c == loop_last.channel_index
        slots == pins_array_for_session_input IN
    \/ g < 0 \/ g >= Len(slots)
    \/ c < 0 \/ c >= Len(slots[g + 1])

\* C6: an iteration whose channel-group index or channel index is out of
\* bounds, negative indices included, fails the resolution; nothing is written.
C6_OutOfBoundsFatal ==
    (loop_last.kind = "step" /\ LastOutOfBounds)
    => /\ resolve_result.kind = "raise"
       /\ resolve_pc = "done"

OpIs(name) == op.kind = "call" /\ op.name = name

DistinctSessions ==
    \A j, k \in 1..Len(tsm_ssc) : j # k => tsm_ssc[j].session # tsm_ssc[k].session

\* C7: on an aggregate of pairwise different sessions [S0, ..., Sk], export
\* first gives S0 the immediate trigger, the exported terminal and a commit,
\* then gives each Si (i >= 1), in aggregate order, a positive-slope digital
\* edge trigger on '/{S0 descriptor}/{terminal}' followed by initiate; S0 is
\* not initiated; the path returned is that string, "" for an empty aggregate.
C7_TriggerFanOut ==
    (OpIs("tsm_ssc_scope_export_start_triggers") /\ DistinctSessions)
    => LET n == Len(tsm_ssc)
           terminal == op.args[1]
           path == IF n = 0 THEN ""
                   ELSE "/" \o io_resource_descriptor(tsm_ssc[1].session) \o "/" \o terminal IN
       /\ op_result.value = <<tsm_ssc, path>>
       /\ n = 0 => calls = <<>>
       /\ n > 0 =>
            /\ Len(calls) = 3 + 2 * (n - 1)
            /\ calls[1] = [call |-> "configure_trigger_immediate",
                           session |-> tsm_ssc[1].session, args |-> <<>>]
            /\ calls[2] = [call |-> "set_exported_start_trigger_output_terminal",
                           session |-> tsm_ssc[1].session, args |-> <<terminal>>]
            /\ calls[3] = [call |-> "commit", session |-> tsm_ssc[1].session, args |-> <<>>]
            /\ \A i \in 2..n :
                /\ calls[2 * i] = [call |-> "configure_trigger_digital",
                                   session |-> tsm_ssc[i].session,
                                   args |-> <<path, "POSITIVE", 0, 0>>]
                /\ calls[2 * i + 1] = [call |-> "initiate",
                                       session |-> tsm_ssc[i].session, args |-> <<>>]
            /\ \A j \in 1..Len(calls) :
                calls[j].call = "initiate" => calls[j].session # tsm_ssc[1].session

\* Export on three different sessions: both slaves armed, the master not.
C7_Witness ==
    /\ OpIs("tsm_ssc_scope_export_start_triggers")
    /\ Len(tsm_ssc) = 3
    /\ DistinctSessions
    /\ Len(calls) = 7
    /\ lifecycle[tsm_ssc[1].session] = "Configured"
    /\ lifecycle[tsm_ssc[2].session] = "Armed"
    /\ lifecycle[tsm_ssc[3].session] = "Armed"

\* C8: start_acquisition on [S0, ..., Sk] issues abort(Sk), initiate(Sk), ...,
\* abort(S0), initiate(S0): each entry once, in reverse aggregate order, abort
\* immediately before initiate; the aggregate is returned unchanged.
C8_StartAcquisitionOrder ==
    OpIs("tsm_ssc_scope_start_acquisition")
    => LET n == Len(tsm_ssc) IN
       /\ op_result = Return(tsm_ssc)
       /\ Len(calls) = 2 * n
       /\ \A j \in 1..n :
            /\ calls[2 * j - 1] = [call |-> "abort",
                                   session |-> tsm_ssc[n + 1 - j].session, args |-> <<>>]
            /\ calls[2 * j] = [call |-> "initiate",
                               session |-> tsm_ssc[n + 1 - j].session, args |-> <<>>]

\* start_acquisition on three different sessions.
C8_Witness ==
    /\ OpIs("tsm_ssc_scope_start_acquisition")
    /\ Len(tsm_ssc) = 3
    /\ DistinctSessions
    /\ Len(calls) = 6
    /\ calls[1].session = tsm_ssc[3].session
    /\ calls[6].session = tsm_ssc[1].session

\* C9: after abort(aggregate) returns, every session of the aggregate, armed
\* or acquired before the call, is Configured.
C9_AbortReturnsToConfigured ==
    OpIs("abort")
    => \A k \in 1..Len(tsm_ssc) : lifecycle[tsm_ssc[k].session] = "Configured"

\* The per-channel entry count of the aggregate: for each entry, the number of
\* comma-separated pieces the descriptor and the channel_list both have.
RECURSIVE Pieces(_)
Pieces(str) ==
    IF Len(str) = 0 THEN 1
    ELSE (IF Head(str) = "," THEN 1 ELSE 0) + Pieces(Tail(str))

RECURSIVE EntryCount(_)
EntryCount(ssc) ==
    IF Len(ssc) = 0 THEN 0
    ELSE Min(Pieces(Head(ssc).channels), Pieces(Head(ssc).channel_list))
         + EntryCount(Tail(ssc))

\* A parameter array that is empty or whose length does not divide n.
CannotBroadcast(d, n) ==
    d.isTuple /\ (Len(d.items) = 0 \/ n % Len(d.items) # 0)

PerChannelOp ==
    OpIs("configure_vertical_per_channel")
    \/ OpIs("tsm_ssc_scope_fetch_meas_stats_per_channel")

\* C10: a per-channel operation one of whose parameter arrays cannot be
\* broadcast to the per-channel entry count fails, and has issued no driver
\* call on any session.
C10_ValidationBeforeDriver ==
    (/\ PerChannelOp
     /\ \E k \in 1..Len(op.args) : CannotBroadcast(op.args[k], EntryCount(tsm_ssc)))
    => /\ op_result.kind = "raise"
       /\ calls = <<>>
       /\ lifecycle = [s \in Sessions |-> "Configured"]

\* configure_vertical_per_channel over three per-channel entries whose last
\* parameter alone has a length (2) that does not divide 3.
C10_Witness ==
    /\ OpIs("configure_vertical_per_channel")
    /\ EntryCount(tsm_ssc) = 3
    /\ \A k \in 1..4 : ~op.args[k].isTuple
    /\ Len(op.args[5].items) = 2
    /\ op.args[5].isTuple
    /\ op_result.kind = "raise"
    /\ calls = <<>>

\* An entry whose descriptor and channel_list have different numbers of
\* comma-separated pieces.
UnequalCardinality(e) == Pieces(e.channels) # Pieces(e.channel_list)

\* The pairs of one entry, position i of the descriptor with position i of the
\* channel_list, for an entry of equal cardinality.
PairsOf(e) ==
    [i \in 1..Pieces(e.channels) |->
        [session |-> e.session, channels |-> ReSplit(e.channels)[i],
         channel_list |-> ReSplit(e.channel_list)[i]]]

\* C11: per-channel expansion of an aggregate with an entry whose descriptor
\* and channel_list split into different numbers of elements fails and returns
\* nothing; with equal cardinalities throughout it returns, in entry order,
\* one entry per position i pairing descriptor element i with channel_list
\* element i.
C11_ExpansionEqualCardinality ==
    OpIs("_expand_ssc_to_ssc_per_channel")
    => IF \E k \in 1..Len(tsm_ssc) : UnequalCardinality(tsm_ssc[k])
       THEN op_result.kind = "raise"
       ELSE op_result = Return(Concat([k \in 1..Len(tsm_ssc) |-> PairsOf(tsm_ssc[k])]))

\* C12: export on any non-empty aggregate, one holding a later entry equal in
\* value to the entry at index 0 included, gives the master configuration
\* (immediate trigger, exported terminal, commit) to the entry at index 0 and
\* to no other, and gives every entry at index >= 1 the slave configuration
\* (digital edge trigger on the exported path, then initiate).
C12_PositionalMaster ==
    (OpIs("tsm_ssc_scope_export_start_triggers") /\ Len(tsm_ssc) > 0)
    => LET n == Len(tsm_ssc)
           terminal == op.args[1]
           path == "/" \o io_resource_descriptor(tsm_ssc[1].session) \o "/" \o terminal IN
       /\ Len(calls) = 3 + 2 * (n - 1)
       /\ calls[1].call = "configure_trigger_immediate"
       /\ calls[2].call = "set_exported_start_trigger_output_terminal"
       /\ calls[3].call = "commit"
       /\ \A j \in 1..3 : calls[j].session = tsm_ssc[1].session
       /\ \A j \in 4..Len(calls) :
            calls[j].call \notin {"configure_trigger_immediate",
                                  "set_exported_start_trigger_output_terminal", "commit"}
       /\ \A i \in 2..n :
            /\ calls[2 * i] = [call |-> "configure_trigger_digital",
                               session |-> tsm_ssc[i].session,
                               args |-> <<path, "POSITIVE", 0, 0>>]
            /\ calls[2 * i + 1] = [call |-> "initiate",
                                   session |-> tsm_ssc[i].session, args |-> <<>>]

\* C13: a classification with no reload requested queries get_pin_names at
\* most once, also when it finds a pin group and classifies the expanded names
\* again.
C13_RosterQueriedOnce ==
    classify_result.kind = "return" => classify_result.value.queries <= 1
====
